---- MODULE Spec2Model ----
(***************************************************************************)
(* Model of the fund-screener metrics pipeline (src/src/processor.py), of   *)
(* its crossover detectors (src/src/signals.py), of its store              *)
(* (src/src/database.py) and of the command that runs them                 *)
(* (src/src/main.py).                                                      *)
(*                                                                         *)
(* Numbers.  A pandas float is modelled as an exact fraction               *)
(* [num, den]: den > 0 is a finite value in lowest terms, 0/0 is NaN (the   *)
(* pandas null), 1/0 and -1/0 are +inf and -inf.  Prices are small          *)
(* integers, for which the sums of the rolling windows are exact in        *)
(* float64 and two distinct means differ by far more than one ulp, so the  *)
(* float comparisons of the code agree with the comparisons of fractions.  *)
(*                                                                         *)
(* Rows.  Python rows are numbered from 0, TLA+ sequences from 1: row i of *)
(* the source is element i+1 here.                                         *)
(*                                                                         *)
(* Optional values (None) are sequences of length 0 or 1.                  *)
(***************************************************************************)
EXTENDS Integers, Sequences, FiniteSets, TLC

VARIABLES raw, merged, df, pc, error, golden, death, db, notes, payload

vars == <<raw, merged, df, pc, error, golden, death, db, notes, payload>>

None == <<>>
Some(v) == <<v>>

\* The sequence f with its elements evaluated once: a column held in memory.
Column(f) == f \o <<>>

(***************************************************************************)
(* float64 values                                                          *)
(***************************************************************************)
Abs(n) == IF n < 0 THEN -n ELSE n

RECURSIVE Gcd(_, _)
Gcd(a, b) == IF b = 0 THEN a ELSE Gcd(b, a % b)

NaN == [num |-> 0, den |-> 0]
PosInf == [num |-> 1, den |-> 0]
NegInf == [num |-> -1, den |-> 0]

\* float division n / d of two integers-as-floats: x/0 is +-inf, 0/0 is NaN
\* (numpy, under errstate or with a warning; never an exception).
Div(n, d) ==
    IF d = 0
    THEN (IF n = 0 THEN NaN ELSE IF n > 0 THEN PosInf ELSE NegInf)
    ELSE LET g == Gcd(Abs(n), Abs(d))
             s == IF d < 0 THEN -1 ELSE 1
         IN  [num |-> s * (n \div g), den |-> s * (d \div g)]

Float(n) == [num |-> n, den |-> 1]

isna(x) == x.num = 0 /\ x.den = 0
notna(x) == ~isna(x)

\* Comparisons of floats: any comparison with NaN is False.
Gt(a, b) == notna(a) /\ notna(b) /\ a.num * b.den > b.num * a.den
Lt(a, b) == notna(a) /\ notna(b) /\ a.num * b.den < b.num * a.den
Ge(a, b) == notna(a) /\ notna(b) /\ a.num * b.den >= b.num * a.den
Le(a, b) == notna(a) /\ notna(b) /\ a.num * b.den <= b.num * a.den

(***************************************************************************)
(* float64 arithmetic on fractions, with the IEEE rules for NaN and inf.   *)
(***************************************************************************)
isinf(x) == x.den = 0 /\ x.num # 0

FMul(a, b) ==
    IF isna(a) \/ isna(b) THEN NaN
    ELSE IF isinf(a) \/ isinf(b)
         THEN (IF a.num * b.num = 0 THEN NaN
               ELSE IF a.num * b.num > 0 THEN PosInf ELSE NegInf)
         ELSE Div(a.num * b.num, a.den * b.den)

FSub(a, b) ==
    IF isna(a) \/ isna(b) THEN NaN
    ELSE IF isinf(a) THEN (IF isinf(b) /\ a.num = b.num THEN NaN ELSE a)
    ELSE IF isinf(b) THEN (IF b.num > 0 THEN NegInf ELSE PosInf)
    ELSE Div(a.num * b.den - b.num * a.den, a.den * b.den)

FDiv(a, b) ==
    IF isna(a) \/ isna(b) THEN NaN
    ELSE IF isinf(a) THEN (IF isinf(b) THEN NaN
                           ELSE IF (a.num > 0) = (b.num >= 0) THEN PosInf ELSE NegInf)
    ELSE IF isinf(b) THEN Float(0)
    ELSE Div(a.num * b.den, a.den * b.num)

(***************************************************************************)
(* processor.py                                                            *)
(***************************************************************************)
Min(a, b) == IF a < b THEN a ELSE b
Max(a, b) == IF a > b THEN a ELSE b

\* DataFrame.sort_values("date") on rows of distinct dates: the row with k-1
\* earlier rows comes k-th.
sort_values(rows) ==
    LET dates == Column([i \in 1..Len(rows) |-> rows[i].date])
        rank == Column([i \in 1..Len(rows) |->
                    1 + Cardinality({j \in 1..Len(rows) : dates[j] < dates[i]})])
    IN  Column([k \in 1..Len(rows) |-> rows[CHOOSE i \in 1..Len(rows) : rank[i] = k]])

\* The dtype pandas gives the volume column of the prices frame: integers
\* only is int64, None only is object, and a mix is float64, in which None has
\* become NaN.
volume_dtype(prices) ==
    IF \A i \in 1..Len(prices) : prices[i].volume # None THEN "int64"
    ELSE IF \A i \in 1..Len(prices) : prices[i].volume = None THEN "object"
    ELSE "float64"

FundFields ==
    {"total_shareholder_equity", "shares_outstanding", "total_debt",
     "cash_and_short_term_investments", "book_value", "enterprise_value"}

NoFundColumns == [f \in FundFields |-> None]

\* prices.merge(fdf, on="date", how="left") with fdf["date"] = prices["date"].min():
\* the rows keep their order, the row of the earliest date receives the
\* snapshot and the other rows receive nulls.
merge(prices, fund) ==
    LET first == CHOOSE d \in {prices[i].date : i \in 1..Len(prices)} :
                     \A i \in 1..Len(prices) : d <= prices[i].date
    IN  Column([i \in 1..Len(prices) |->
            [date |-> prices[i].date, high |-> prices[i].high, low |-> prices[i].low,
             close |-> prices[i].close, volume |-> prices[i].volume,
             fund |-> IF prices[i].date = first THEN fund ELSE NoFundColumns]])

\* DataFrame.ffill(): in every column a null takes the last non-null value
\* above it.  The price columns have no null; the volume column and the
\* snapshot columns may.
RECURSIVE ffill(_, _, _)
ffill(rows, i, prev) ==
    IF i > Len(rows) THEN <<>>
    ELSE LET r == rows[i]
             filled == [r EXCEPT
                 !.volume = IF r.volume # None \/ i = 1 THEN r.volume ELSE prev.volume,
                 !.fund = [f \in FundFields |->
                              IF r.fund[f] # None \/ i = 1 THEN r.fund[f] ELSE prev.fund[f]]]
         IN  <<filled>> \o ffill(rows, i + 1, filled)

\* prices.copy() when there is no snapshot: the frame has no snapshot column.
copy(prices) ==
    Column([i \in 1..Len(prices) |->
        [date |-> prices[i].date, high |-> prices[i].high, low |-> prices[i].low,
         close |-> prices[i].close, volume |-> prices[i].volume,
         fund |-> NoFundColumns]])

\* merged_frame filling forward in the order of the input bars, without the
\* sort by date.
merged_frame_unsorted(r) ==
    IF r.fundamentals # None
    THEN ffill(merge(r.prices, r.fundamentals[1]), 1, <<>>)
    ELSE copy(r.prices)

\* Lines 72-83 of process_data: the merged frame.
merged_frame(r) ==
    IF r.fundamentals # None
    THEN ffill(sort_values(merge(r.prices, r.fundamentals[1])), 1, <<>>)
    ELSE copy(r.prices)

(***************************************************************************)
(* Rolling windows.  Series.rolling(window, min_periods) looks at the      *)
(* rows max(0, i - window + 1) .. i of row i and yields NaN when they are  *)
(* fewer than min_periods.                                                 *)
(***************************************************************************)
SMA50_WINDOW == 50
SMA50_MIN_PERIODS == 10
SMA200_WINDOW == 200
SMA200_MIN_PERIODS == 20
HIGH52W_WINDOW == 252
HIGH52W_MIN_PERIODS == 20

\* Sum and maximum of the cells lo..hi of a column (by halves, to keep the
\* evaluation shallow).
RECURSIVE SumRange(_, _, _)
SumRange(col, lo, hi) ==
    IF lo > hi THEN 0
    ELSE IF lo = hi THEN col[lo]
    ELSE LET mid == (lo + hi) \div 2
         IN  SumRange(col, lo, mid) + SumRange(col, mid + 1, hi)

RECURSIVE MaxRange(_, _, _)
MaxRange(col, lo, hi) ==
    IF lo = hi THEN col[lo]
    ELSE LET mid == (lo + hi) \div 2
         IN  Max(MaxRange(col, lo, mid), MaxRange(col, mid + 1, hi))

\* rolling_mean dividing by the window size instead of the number of rows seen.
rolling_mean_by_window(col, window, min_periods) ==
    Column([i \in 1..Len(col) |->
        LET lo == Max(1, i - window + 1)
        IN  IF i - lo + 1 < min_periods THEN NaN
            ELSE Div(SumRange(col, lo, i), window)])

rolling_mean(col, window, min_periods) ==
    Column([i \in 1..Len(col) |->
        LET lo == Max(1, i - window + 1)
        IN  IF i - lo + 1 < min_periods THEN NaN
            ELSE Div(SumRange(col, lo, i), i - lo + 1)])

rolling_max(col, window, min_periods) ==
    Column([i \in 1..Len(col) |->
        LET lo == Max(1, i - window + 1)
        IN  IF i - lo + 1 < min_periods THEN NaN
            ELSE Float(MaxRange(col, lo, i))])

\* np.where(high_52w.notna(), (close / high_52w - 1.0) * 100.0, np.nan)
pct_from_high(close, high_52w) ==
    IF notna(high_52w)
    THEN FMul(FSub(FDiv(Float(close), high_52w), Float(1)), Float(100))
    ELSE NaN

_compute_indicators(frame) ==
    LET rows == sort_values(frame)
        close == Column([i \in 1..Len(rows) |-> rows[i].close])
        high == Column([i \in 1..Len(rows) |-> rows[i].high])
        sma_50 == rolling_mean(close, SMA50_WINDOW, SMA50_MIN_PERIODS)
        sma_200 == rolling_mean(close, SMA200_WINDOW, SMA200_MIN_PERIODS)
        high_52w == rolling_max(high, HIGH52W_WINDOW, HIGH52W_MIN_PERIODS)
    IN  Column([i \in 1..Len(rows) |->
            [date |-> rows[i].date, high |-> rows[i].high, low |-> rows[i].low,
             close |-> rows[i].close, volume |-> rows[i].volume, fund |-> rows[i].fund,
             sma_50 |-> sma_50[i], sma_200 |-> sma_200[i], high_52w |-> high_52w[i],
             pct_from_52w_high |-> pct_from_high(rows[i].close, high_52w[i])]])

(***************************************************************************)
(* Cells of the snapshot columns.  A cell is null, a Python Decimal (the   *)
(* balance-sheet fields of RawFundamentals), an int or a float; a raised   *)
(* exception is recorded in t.  The arithmetic of two columns of which one *)
(* has dtype object is done cell by cell on the non-null pairs: a Decimal  *)
(* with a float raises TypeError, a non-zero Decimal divided by zero       *)
(* raises decimal.DivisionByZero, a zero Decimal divided by zero raises    *)
(* decimal.InvalidOperation, and a pair with a null gives null.            *)
(***************************************************************************)
VNull == [t |-> "null", v |-> NaN]
VDecimal(opt) == IF opt = None THEN VNull ELSE [t |-> "Decimal", v |-> Float(opt[1])]
VInt(opt) == IF opt = None THEN VNull ELSE [t |-> "int", v |-> Float(opt[1])]
VFloat(x) == IF isna(x) THEN VNull ELSE [t |-> "float", v |-> x]
TypeError == [t |-> "TypeError", v |-> NaN]
DivisionByZero == [t |-> "DivisionByZero", v |-> NaN]
InvalidOperation == [t |-> "InvalidOperation", v |-> NaN]

IsErr(x) == x.t \in {"TypeError", "DivisionByZero", "InvalidOperation"}

\* float(x) of a cell, as .astype(float) and the float fields of DailyMetrics do.
AsFloat(x) == IF x.t = "null" THEN NaN ELSE x.v

ArithOp(op, x, y) ==
    IF IsErr(x) THEN x
    ELSE IF IsErr(y) THEN y
    ELSE IF x.t = "null" \/ y.t = "null" THEN VNull
    ELSE IF {x.t, y.t} = {"Decimal", "float"} THEN TypeError
    ELSE IF op = "/" /\ x.t = "Decimal" /\ y.v = Float(0)
         THEN (IF x.v = Float(0) THEN InvalidOperation ELSE DivisionByZero)
    ELSE LET v == CASE op = "/" -> FDiv(x.v, y.v)
                    [] op = "*" -> FMul(x.v, y.v)
                    [] op = "+" -> FSub(x.v, FSub(Float(0), y.v))
                    [] op = "-" -> FSub(x.v, y.v)
             t == IF "Decimal" \in {x.t, y.t} THEN "Decimal"
                  ELSE IF op = "/" \/ "float" \in {x.t, y.t} THEN "float" ELSE "int"
         IN  IF isna(v) THEN VNull ELSE [t |-> t, v |-> v]

\* The dtype of the shares_outstanding column after the left merge: int64
\* when every row matched the snapshot's date, float64 when an unmatched row
\* put a NaN in it, object when the snapshot has no share count.
shares_dtype(prices, fund) ==
    IF fund.shares_outstanding = None THEN "object"
    ELSE IF \A i, j \in 1..Len(prices) : prices[i].date = prices[j].date THEN "int64"
    ELSE "float64"

VShares(opt, dtype) ==
    IF opt = None THEN VNull
    ELSE IF dtype = "float64" THEN [t |-> "float", v |-> Float(opt[1])]
    ELSE [t |-> "int", v |-> Float(opt[1])]

\* _compute_fundamentals on one row; has_fund says whether the frame has the
\* snapshot columns (df.get returns None for a missing column).
bvps_cell(r, has_fund, sdtype) ==
    IF has_fund
    THEN LET shares == VShares(r.fund.shares_outstanding, sdtype)
             q == ArithOp("/", VDecimal(r.fund.total_shareholder_equity), shares)
         IN  IF IsErr(q) THEN q
             ELSE IF Gt(AsFloat(shares), Float(0)) THEN VFloat(AsFloat(q)) ELSE VNull
    ELSE VNull

price_to_book_cell(r, bvps) ==
    IF notna(bvps) /\ bvps # Float(0) THEN FDiv(Float(r.close), bvps) ELSE NaN

enterprise_value_cell(r, has_fund, sdtype) ==
    IF has_fund /\ r.fund.enterprise_value # None
    THEN VDecimal(r.fund.enterprise_value)
    ELSE LET market_cap == IF has_fund
                           THEN ArithOp("*", VShares(r.fund.shares_outstanding, sdtype),
                                        VFloat(Float(r.close)))
                           ELSE VNull
             total_debt == IF has_fund THEN VDecimal(r.fund.total_debt) ELSE VNull
             cash == IF has_fund THEN VDecimal(r.fund.cash_and_short_term_investments)
                     ELSE VNull
         IN  ArithOp("-", ArithOp("+", market_cap, total_debt), cash)

\* The frame after _compute_fundamentals, or the exception it raised: the
\* division of line 34 is evaluated on the whole column before the sum of
\* line 58.
_compute_fundamentals(rows, has_fund, sdtype) ==
    LET bv == Column([i \in 1..Len(rows) |-> bvps_cell(rows[i], has_fund, sdtype)])
        ev == Column([i \in 1..Len(rows) |->
                  enterprise_value_cell(rows[i], has_fund, sdtype)])
    IN  IF \E i \in 1..Len(rows) : IsErr(bv[i])
        THEN [exc |-> Some(bv[CHOOSE i \in 1..Len(rows) : IsErr(bv[i])].t), rows |-> <<>>]
        ELSE IF \E i \in 1..Len(rows) : IsErr(ev[i])
        THEN [exc |-> Some(ev[CHOOSE i \in 1..Len(rows) : IsErr(ev[i])].t), rows |-> <<>>]
        ELSE [exc |-> None,
              rows |-> Column([i \in 1..Len(rows) |->
                  [date |-> rows[i].date, high |-> rows[i].high, low |-> rows[i].low,
                   close |-> rows[i].close, volume |-> rows[i].volume,
                   sma_50 |-> rows[i].sma_50, sma_200 |-> rows[i].sma_200,
                   high_52w |-> rows[i].high_52w,
                   pct_from_52w_high |-> rows[i].pct_from_52w_high,
                   book_value_per_share |-> AsFloat(bv[i]),
                   price_to_book |-> price_to_book_cell(rows[i], AsFloat(bv[i])),
                   enterprise_value |-> AsFloat(ev[i])]])]

\* merged["ticker"] = raw_data.ticker
with_ticker(rows, ticker) ==
    Column([i \in 1..Len(rows) |->
        [ticker |-> ticker, date |-> rows[i].date, high |-> rows[i].high,
         low |-> rows[i].low, close |-> rows[i].close, volume |-> rows[i].volume,
         sma_50 |-> rows[i].sma_50, sma_200 |-> rows[i].sma_200,
         high_52w |-> rows[i].high_52w,
         pct_from_52w_high |-> rows[i].pct_from_52w_high,
         book_value_per_share |-> rows[i].book_value_per_share,
         price_to_book |-> rows[i].price_to_book,
         enterprise_value |-> rows[i].enterprise_value]])

\* DailyMetrics(**row.to_dict()): high >= low, and volume is an int or None;
\* the NaN of a float64 volume column is neither, so the row is rejected.
valid_row(r, vdtype) == r.high >= r.low /\ ~(vdtype = "float64" /\ r.volume = None)

\* process_data: the table of the validated rows, or the exception raised.
\* An empty price list gives a frame without columns, and the first access
\* to its "date" column raises KeyError.
process_data(r) ==
    IF r.prices = <<>> THEN [exc |-> Some("KeyError"), table |-> <<>>]
    ELSE LET has_fund == r.fundamentals # None
             sdtype == IF has_fund THEN shares_dtype(r.prices, r.fundamentals[1])
                       ELSE "object"
             vdtype == volume_dtype(r.prices)
             f == _compute_fundamentals(_compute_indicators(merged_frame(r)),
                                        has_fund, sdtype)
             Valid(row) == valid_row(row, vdtype)
         IN  IF f.exc # None THEN [exc |-> f.exc, table |-> <<>>]
             ELSE [exc |-> None, table |-> SelectSeq(with_ticker(f.rows, r.ticker), Valid)]

(***************************************************************************)
(* signals.py                                                              *)
(***************************************************************************)
\* Series.shift(1): the value of the previous row, NaN on the first row.
shift(s) == Column([i \in 1..Len(s) |-> IF i = 1 THEN NaN ELSE s[i - 1]])

\* pd.to_datetime(d) and Timestamp.date(): a date becomes a midnight
\* timestamp, and a timestamp gives back its calendar day.
to_datetime(d) == [day |-> d, ns |-> 0]
date(ts) == ts.day

\* df.loc[cond, "date"].tolist(): the dates of the rows selected by the
\* boolean mask, in the order of the rows.
RECURSIVE loc_date(_, _, _, _)
loc_date(tbl, cond, lo, hi) ==
    IF lo > hi THEN <<>>
    ELSE IF lo = hi THEN (IF cond[lo] THEN <<tbl[lo].date>> ELSE <<>>)
    ELSE LET mid == (lo + hi) \div 2
         IN  loc_date(tbl, cond, lo, mid) \o loc_date(tbl, cond, mid + 1, hi)

to_dates(ds) == Column([k \in 1..Len(ds) |-> date(to_datetime(ds[k]))])

\* golden_cond with a strict comparison on the previous row.
golden_cond_strict_prev(tbl) ==
    LET s50 == Column([i \in 1..Len(tbl) |-> tbl[i].sma_50])
        s200 == Column([i \in 1..Len(tbl) |-> tbl[i].sma_200])
        prev50 == shift(s50)
        prev200 == shift(s200)
    IN  Column([i \in 1..Len(tbl) |->
            Gt(s50[i], s200[i]) /\ Lt(prev50[i], prev200[i])])

\* golden_cond pasted from the death detector without turning the comparisons.
golden_cond_pasted(tbl) ==
    LET s50 == Column([i \in 1..Len(tbl) |-> tbl[i].sma_50])
        s200 == Column([i \in 1..Len(tbl) |-> tbl[i].sma_200])
        prev50 == shift(s50)
        prev200 == shift(s200)
    IN  Column([i \in 1..Len(tbl) |->
            Lt(s50[i], s200[i]) /\ Ge(prev50[i], prev200[i])])

golden_cond(tbl) ==
    LET s50 == Column([i \in 1..Len(tbl) |-> tbl[i].sma_50])
        s200 == Column([i \in 1..Len(tbl) |-> tbl[i].sma_200])
        prev50 == shift(s50)
        prev200 == shift(s200)
    IN  Column([i \in 1..Len(tbl) |->
            Gt(s50[i], s200[i]) /\ Le(prev50[i], prev200[i])])

\* death_cond with a strict comparison on the previous row.
death_cond_strict_prev(tbl) ==
    LET s50 == Column([i \in 1..Len(tbl) |-> tbl[i].sma_50])
        s200 == Column([i \in 1..Len(tbl) |-> tbl[i].sma_200])
        prev50 == shift(s50)
        prev200 == shift(s200)
    IN  Column([i \in 1..Len(tbl) |->
            Lt(s50[i], s200[i]) /\ Gt(prev50[i], prev200[i])])

death_cond(tbl) ==
    LET s50 == Column([i \in 1..Len(tbl) |-> tbl[i].sma_50])
        s200 == Column([i \in 1..Len(tbl) |-> tbl[i].sma_200])
        prev50 == shift(s50)
        prev200 == shift(s200)
    IN  Column([i \in 1..Len(tbl) |->
            Lt(s50[i], s200[i]) /\ Ge(prev50[i], prev200[i])])

detect_golden_crossover(tbl) == to_dates(loc_date(tbl, golden_cond(tbl), 1, Len(tbl)))

detect_death_crossover(tbl) == to_dates(loc_date(tbl, death_cond(tbl), 1, Len(tbl)))

(***************************************************************************)
(* database.py.  A table of the store is the set of its rows, each with    *)
(* the integer primary key id; SQLite gives a new row one more than the    *)
(* largest id of its table.  The metric columns of daily_metrics are kept  *)
(* in the field metrics (the bars of the model have no open price).  A     *)
(* NaN is stored as NULL, which is the null of the model.                  *)
(***************************************************************************)
EmptyDb == [tickers |-> {}, daily_metrics |-> {}, signal_events |-> {}]

next_id(rows) ==
    IF rows = {} THEN 1
    ELSE 1 + CHOOSE m \in {r.id : r \in rows} : \A r \in rows : r.id <= m

\* insert into tickers ... on conflict (symbol) do update
upsert_ticker(store, symbol, market, name, currency) ==
    LET hit == {r \in store.tickers : r.symbol = symbol}
    IN  [store EXCEPT !.tickers =
            IF hit = {}
            THEN @ \cup {[id |-> next_id(@), symbol |-> symbol, market |-> market,
                          name |-> name, currency |-> currency]}
            ELSE {IF r \in hit
                  THEN [r EXCEPT !.market = market, !.name = name, !.currency = currency]
                  ELSE r : r \in @}]

\* The values of lines 112-123, which are also the columns set on conflict.
metric_values(row) ==
    [high |-> row.high, low |-> row.low, close |-> row.close, volume |-> row.volume,
     sma_50 |-> row.sma_50, sma_200 |-> row.sma_200, high_52w |-> row.high_52w,
     pct_from_52w_high |-> row.pct_from_52w_high,
     book_value_per_share |-> row.book_value_per_share,
     price_to_book |-> row.price_to_book,
     enterprise_value |-> row.enterprise_value]

\* upsert_daily_metric leaving the stored row as it is on a conflict.
upsert_daily_metric_do_nothing(rows, row) ==
    LET hit == {r \in rows : r.ticker_symbol = row.ticker /\ r.date = row.date}
    IN  IF hit = {}
        THEN rows \cup {[id |-> next_id(rows), ticker_symbol |-> row.ticker,
                         date |-> row.date, metrics |-> metric_values(row)]}
        ELSE rows

\* insert into daily_metrics ... on conflict (ticker_symbol, date) do update
upsert_daily_metric(rows, row) ==
    LET hit == {r \in rows : r.ticker_symbol = row.ticker /\ r.date = row.date}
    IN  IF hit = {}
        THEN rows \cup {[id |-> next_id(rows), ticker_symbol |-> row.ticker,
                         date |-> row.date, metrics |-> metric_values(row)]}
        ELSE {IF r \in hit THEN [r EXCEPT !.metrics = metric_values(row)] ELSE r : r \in rows}

\* The loop of lines 108-142 over the rows lo..hi of the table, in order (by
\* halves, the first half being evaluated by the test before the second
\* starts, to keep the evaluation shallow).
RECURSIVE upsert_rows(_, _, _, _)
upsert_rows(rows, tbl, lo, hi) ==
    IF lo > hi THEN rows
    ELSE IF lo = hi THEN upsert_daily_metric(rows, tbl[lo])
    ELSE LET mid == (lo + hi) \div 2
             done == upsert_rows(rows, tbl, lo, mid)
         IN  IF done = {} THEN upsert_rows({}, tbl, mid + 1, hi)
             ELSE upsert_rows(done, tbl, mid + 1, hi)

save_daily_metrics(store, tbl) ==
    IF tbl = <<>> THEN store
    ELSE [store EXCEPT !.daily_metrics = upsert_rows(@, tbl, 1, Len(tbl))]

\* insert into signal_events ... on conflict (ticker_symbol, date, signal_type)
\* do nothing
insert_signal_event(rows, symbol, d, signal_type) ==
    IF \E r \in rows : r.ticker_symbol = symbol /\ r.date = d /\ r.signal_type = signal_type
    THEN rows
    ELSE rows \cup {[id |-> next_id(rows), ticker_symbol |-> symbol, date |-> d,
                     signal_type |-> signal_type]}

\* The loop of lines 149-156 over the dates lo..hi of the list, in order.
RECURSIVE insert_events(_, _, _, _, _, _)
insert_events(rows, symbol, dates, signal_type, lo, hi) ==
    IF lo > hi THEN rows
    ELSE IF lo = hi THEN insert_signal_event(rows, symbol, dates[lo], signal_type)
    ELSE LET mid == (lo + hi) \div 2
         IN  insert_events(insert_events(rows, symbol, dates, signal_type, lo, mid),
                           symbol, dates, signal_type, mid + 1, hi)

save_signal_events(store, symbol, dates, signal_type) ==
    [store EXCEPT !.signal_events =
        insert_events(@, symbol, dates, signal_type, 1, Len(dates))]

(***************************************************************************)
(* The two detector calls of run (main.py), on the table df.  They read   *)
(* df and return a new list; each may be called any number of times.       *)
(***************************************************************************)
DetectGolden ==
    /\ pc = "processed"
    /\ golden' = Some(detect_golden_crossover(df))
    /\ UNCHANGED <<raw, merged, df, pc, error, death, db, notes, payload>>

DetectDeath ==
    /\ pc = "processed"
    /\ death' = Some(detect_death_crossover(df))
    /\ UNCHANGED <<raw, merged, df, pc, error, golden, db, notes, payload>>

\* run, lines 71-76: process_data is called once on the fetched data; an
\* exception ends the run before the detectors.
ProcessData ==
    /\ pc = "fetched"
    /\ LET res == process_data(raw)
       IN  /\ merged' = IF raw.prices = <<>> THEN <<>> ELSE merged_frame(raw)
           /\ df' = res.table
           /\ error' = res.exc
           /\ pc' = IF res.exc = None THEN "processed" ELSE "failed"
    /\ UNCHANGED <<raw, golden, death, db, notes, payload>>

(***************************************************************************)
(* SpecSignals: the detectors on every table of at most MaxRows rows whose *)
(* sma_50 and sma_200 are NaN or one of SmaLevels (two levels give every    *)
(* order of the two averages on a row), with the dates either ascending or *)
(* descending along the table.                                             *)
(***************************************************************************)
MaxRows == 4
SmaLevels == {1, 2}

SmaVals == {NaN} \cup {Float(v) : v \in SmaLevels}

SignalTable(n, a, b, asc) ==
    Column([i \in 1..n |-> [date |-> IF asc THEN i ELSE n + 1 - i,
                            sma_50 |-> a[i], sma_200 |-> b[i]]])

NoRaw == [ticker |-> "TEST", prices |-> <<>>, fundamentals |-> None]

InitSignals ==
    /\ raw = NoRaw
    /\ \E n \in 0..MaxRows :
          \E a \in [1..n -> SmaVals], b \in [1..n -> SmaVals], asc \in BOOLEAN :
              df = SignalTable(n, a, b, asc)
    /\ merged = <<>>
    /\ pc = "processed"
    /\ error = None
    /\ golden = None
    /\ death = None
    /\ db = EmptyDb
    /\ notes = <<>>
    /\ payload = None

NextSignals == DetectGolden \/ DetectDeath

SpecSignals == InitSignals /\ [][NextSignals]_vars

(***************************************************************************)
(* SpecIndicators: the pipeline on long price series without a snapshot.   *)
(* A series has n bars on consecutive business days; its closes follow a   *)
(* shape, high = close + spread and low = close - spread; the bars arrive   *)
(* in ascending or descending date order; every bar has a volume, or none  *)
(* has, or the bar of day GapDay alone has none.                           *)
(***************************************************************************)
MaxLen == 254
MaxSpread == 1
PriceTop == 300
VeeDay == 100
GapDay == 3

TestLen == 220
Lengths == {1, 9, 10, 12, 19, 20, 49, 50, 51, 200, TestLen, MaxLen}
Shapes == {"ramp", "fall", "flat", "vee", "wave"}
VolumePatterns == {"all", "none", "gap"}

BusinessDay(d) == d + 2 * (d \div 5)

CloseOf(shape, d, spread) ==
    CASE shape = "ramp" -> d
      [] shape = "fall" -> PriceTop - d
      [] shape = "flat" -> 0 - spread
      [] shape = "vee" -> Abs(d - VeeDay)
      [] shape = "wave" -> (7 * d) % 13

Bar(shape, d, spread, vol) ==
    [date |-> BusinessDay(d),
     high |-> CloseOf(shape, d, spread) + spread,
     low |-> CloseOf(shape, d, spread) - spread,
     close |-> CloseOf(shape, d, spread),
     volume |-> IF vol = "none" \/ (vol = "gap" /\ d = GapDay) THEN None ELSE Some(1000)]

Series(n, shape, spread, vol, asc) ==
    Column([i \in 1..n |-> Bar(shape, IF asc THEN i - 1 ELSE n - i, spread, vol)])

InitIndicators ==
    /\ \E n \in Lengths, shape \in Shapes, spread \in 0..MaxSpread,
          vol \in VolumePatterns, asc \in BOOLEAN :
          raw = [ticker |-> "TEST", prices |-> Series(n, shape, spread, vol, asc),
                 fundamentals |-> None]
    /\ merged = <<>>
    /\ df = <<>>
    /\ pc = "fetched"
    /\ error = None
    /\ golden = None
    /\ death = None
    /\ db = EmptyDb
    /\ notes = <<>>
    /\ payload = None

NextIndicators == ProcessData \/ DetectGolden \/ DetectDeath

SpecIndicators == InitIndicators /\ [][NextIndicators]_vars

(***************************************************************************)
(* SpecFundamentals: the pipeline on every series of at most MaxBars bars, *)
(* in every order of arrival, with closes in CloseVals and a volume or     *)
(* none on each bar, without a snapshot or with a snapshot whose fields    *)
(* are each null or one of a few values.                                   *)
(***************************************************************************)
MaxBars == 2
CloseVals == {1, 2}

EquityVals == {None, Some(0), Some(6)}
SharesVals == {None, Some(0), Some(2)}
DebtVals == {None, Some(3)}
CashVals == {None, Some(1)}
BookValueVals == {None, Some(5)}
EnterpriseVals == {None, Some(7)}

Snapshots ==
    [total_shareholder_equity : EquityVals, shares_outstanding : SharesVals,
     total_debt : DebtVals, cash_and_short_term_investments : CashVals,
     book_value : BookValueVals, enterprise_value : EnterpriseVals]

ShortSeries(n, day, close, vol) ==
    Column([i \in 1..n |->
        [date |-> day[i], high |-> close[i] + 1, low |-> close[i] - 1,
         close |-> close[i], volume |-> vol[i]]])

InitFundamentals ==
    /\ \E n \in 0..MaxBars :
          \E day \in [1..n -> 1..n], close \in [1..n -> CloseVals],
             vol \in [1..n -> {None, Some(1000)}],
             fund \in {None} \cup {Some(f) : f \in Snapshots} :
              /\ \A i, j \in 1..n : day[i] = day[j] => i = j
              /\ raw = [ticker |-> "TEST", prices |-> ShortSeries(n, day, close, vol),
                        fundamentals |-> fund]
    /\ merged = <<>>
    /\ df = <<>>
    /\ pc = "fetched"
    /\ error = None
    /\ golden = None
    /\ death = None
    /\ db = EmptyDb
    /\ notes = <<>>
    /\ payload = None

NextFundamentals == ProcessData \/ DetectGolden \/ DetectDeath

SpecFundamentals == InitFundamentals /\ [][NextFundamentals]_vars

(***************************************************************************)
(* run (main.py).  pc follows the command: start, upsert (the fetch has    *)
(* returned), fetched, processed, saved, done; failed is typer.Exit(1).    *)
(* Before the fetch, raw holds the ticker option alone.  The data source   *)
(* and the store are outside the program: the fetch returns a bundle or    *)
(* raises, and any write to the store may raise.                           *)
(***************************************************************************)
TAIL_ROWS == 30

Tickers == {"AAA", "BBB"}

\* f"fundamentals_source={raw.fundamentals.source}"
source_note(source) ==
    CASE source = "quarterly_balance_sheet" -> "fundamentals_source=quarterly_balance_sheet"
      [] source = "annual_balance_sheet" -> "fundamentals_source=annual_balance_sheet"
      [] source = "info" -> "fundamentals_source=info"

SignalEvent(ticker, d, signal_type) ==
    [ticker |-> ticker, date |-> d, signal_type |-> signal_type]

\* The list of lines 100-103: the golden events, then the death events.
signals(ticker, g, d) ==
    [k \in 1..Len(g) |-> SignalEvent(ticker, g[k], "golden_cross")]
        \o [k \in 1..Len(d) |-> SignalEvent(ticker, d[k], "death_cross")]

\* df.sort_values("date").tail(30), when df is not empty.
last_metrics(tbl) ==
    IF tbl = <<>> THEN <<>>
    ELSE LET sorted == sort_values(tbl)
         IN  SubSeq(sorted, Max(1, Len(sorted) - TAIL_ROWS + 1), Len(sorted))

\* The payload, without its generation time.
ExportPayload(ticker, ns, sigs, metrics) ==
    [ticker |-> ticker, notes |-> ns, signals |-> sigs, last_metrics |-> metrics]

\* The bundles the fetch returns in the model: RunLengths bars rising or
\* falling by one a day, and a snapshot (fetch_stock_data always builds one,
\* with its source) that has no figure, or its own enterprise value, or
\* equity and shares.
RunLengths == {1, 51}
RunShapes == {"ramp", "fall"}

RunSnapshot(equity, shares, ev, source, currency) ==
    [total_shareholder_equity |-> equity, shares_outstanding |-> shares,
     total_debt |-> None, cash_and_short_term_investments |-> None,
     book_value |-> None, enterprise_value |-> ev,
     currency |-> currency, source |-> Some(source)]

RunSnapshots ==
    {RunSnapshot(None, None, None, "info", None),
     RunSnapshot(None, None, Some(7), "quarterly_balance_sheet", Some("USD")),
     RunSnapshot(Some(6), Some(2), None, "annual_balance_sheet", Some("USD"))}

\* Lines 39-46 and the handlers of lines 49-69 for a failing fetch: the
\* fetch returns the bundle, or raises RuntimeError (no price history: the
\* empty payload is exported and run returns), or raises something else.
Fetch ==
    /\ pc = "start"
    /\ \/ \E n \in RunLengths, shape \in RunShapes, fund \in RunSnapshots :
            /\ raw' = [ticker |-> raw.ticker,
                       prices |-> Series(n, shape, 1, "all", TRUE),
                       fundamentals |-> Some(fund)]
            /\ notes' = IF fund.source # None
                        THEN Append(notes, source_note(fund.source[1])) ELSE notes
            /\ pc' = "upsert"
            /\ UNCHANGED <<error, payload>>
       \/ /\ notes' = Append(notes, "no_price_history")
          /\ payload' = Some(ExportPayload(raw.ticker, notes', <<>>, <<>>))
          /\ pc' = "done"
          /\ UNCHANGED <<raw, error>>
       \/ /\ error' = Some("Exception")
          /\ pc' = "failed"
          /\ UNCHANGED <<raw, notes, payload>>
    /\ UNCHANGED <<merged, df, golden, death, db>>

\* Line 48, inside the try block of the fetch: the write succeeds, or it
\* raises and the handler of lines 67-69 ends run with exit code 1.
UpsertTicker ==
    /\ pc = "upsert"
    /\ \/ /\ db' = upsert_ticker(db, raw.ticker, None, None,
                                 raw.fundamentals[1].currency)
          /\ pc' = "fetched"
          /\ UNCHANGED error
       \/ /\ error' = Some("SQLAlchemyError")
          /\ pc' = "failed"
          /\ UNCHANGED db
    /\ UNCHANGED <<raw, merged, df, golden, death, notes, payload>>

\* Lines 82-90: the three writes in turn, each committing on its own; the
\* first that raises (failing = 1, 2, 3; 0 when none does) leaves the store
\* as the writes before it made it, and the note is added.
SaveToDb ==
    /\ pc = "processed" /\ golden # None /\ death # None
    /\ \E failing \in 0..3 :
          LET d1 == save_daily_metrics(db, df)
              d2 == save_signal_events(d1, raw.ticker, golden[1], "golden_cross")
              d3 == save_signal_events(d2, raw.ticker, death[1], "death_cross")
          IN  /\ db' = CASE failing = 1 -> db
                         [] failing = 2 -> d1
                         [] failing = 3 -> d2
                         [] OTHER -> d3
              /\ notes' = IF failing = 0 THEN notes
                          ELSE Append(notes, "database_save_failed")
    /\ pc' = "saved"
    /\ UNCHANGED <<raw, merged, df, error, golden, death, payload>>

\* Lines 92-118: the payload is built and written or printed.
Export ==
    /\ pc = "saved"
    /\ payload' = Some(ExportPayload(raw.ticker, notes,
                                     signals(raw.ticker, golden[1], death[1]),
                                     last_metrics(df)))
    /\ pc' = "done"
    /\ UNCHANGED <<raw, merged, df, error, golden, death, db, notes>>

InitRun ==
    /\ \E t \in Tickers : raw = [ticker |-> t, prices |-> <<>>, fundamentals |-> None]
    /\ merged = <<>>
    /\ df = <<>>
    /\ pc = "start"
    /\ error = None
    /\ golden = None
    /\ death = None
    /\ db = EmptyDb
    /\ notes = <<>>
    /\ payload = None

NextRun ==
    \/ Fetch
    \/ UpsertTicker
    \/ ProcessData
    \/ DetectGolden
    \/ DetectDeath
    \/ SaveToDb
    \/ Export

SpecRun == InitRun /\ [][NextRun]_vars

(***************************************************************************)
(* SpecStore: save_daily_metrics and save_signal_events called any number  *)
(* of times, in any order, on a store that starts empty.  A table has      *)
(* TableLengths rows, each of a ticker of Tickers, a date of StoreDates    *)
(* and a close of CloseVals; two rows of a table may have the same ticker  *)
(* and date.  A call is left out when it would make the store hold more    *)
(* than MaxStoreRows rows.                                                 *)
(***************************************************************************)
MaxStoreRows == 3

StoreDates == {1, 2}
TableLengths == {0, 1, 2}
SignalTypes == {"golden_cross", "death_cross"}

StoreRow(t, d, c) ==
    [ticker |-> t, date |-> d, high |-> c + 1, low |-> c - 1, close |-> c,
     volume |-> Some(1000), sma_50 |-> NaN, sma_200 |-> NaN, high_52w |-> NaN,
     pct_from_52w_high |-> NaN, book_value_per_share |-> NaN,
     price_to_book |-> NaN, enterprise_value |-> NaN]

StoreRows == {StoreRow(t, d, c) : t \in Tickers, d \in StoreDates, c \in CloseVals}

StoreSize(store) == Cardinality(store.daily_metrics) + Cardinality(store.signal_events)

SaveDailyMetrics ==
    /\ pc = "store"
    /\ \E n \in TableLengths : \E tbl \in [1..n -> StoreRows] :
          /\ db' = save_daily_metrics(db, tbl)
          /\ StoreSize(db') <= MaxStoreRows
    /\ UNCHANGED <<raw, merged, df, pc, error, golden, death, notes, payload>>

SaveSignalEvents ==
    /\ pc = "store"
    /\ \E symbol \in Tickers, signal_type \in SignalTypes, n \in TableLengths :
          \E dates \in [1..n -> StoreDates] :
              /\ db' = save_signal_events(db, symbol, dates, signal_type)
              /\ StoreSize(db') <= MaxStoreRows
    /\ UNCHANGED <<raw, merged, df, pc, error, golden, death, notes, payload>>

InitStore ==
    /\ raw = NoRaw
    /\ merged = <<>>
    /\ df = <<>>
    /\ pc = "store"
    /\ error = None
    /\ golden = None
    /\ death = None
    /\ db = EmptyDb
    /\ notes = <<>>
    /\ payload = None

NextStore == SaveDailyMetrics \/ SaveSignalEvents

SpecStore == InitStore /\ [][NextStore]_vars

(***************************************************************************)
(* Properties of the detectors                                             *)
(***************************************************************************)
InList(d, l) == \E k \in 1..Len(l) : l[k] = d

\* The dates of the rows of tbl whose index is in E, in table order.
IsDatesOf(l, tbl, E) ==
    /\ Len(l) = Cardinality(E)
    /\ \A k \in 1..Len(l) :
          \E i \in E : l[k] = tbl[i].date /\ Cardinality({j \in E : j < i}) = k - 1

IsNull(x) == x.num = 0 /\ x.den = 0
Defined(tbl, i) == ~IsNull(tbl[i].sma_50) /\ ~IsNull(tbl[i].sma_200)
Above(tbl, i) ==
    Defined(tbl, i) /\ tbl[i].sma_50.num * tbl[i].sma_200.den > tbl[i].sma_200.num * tbl[i].sma_50.den
Below(tbl, i) ==
    Defined(tbl, i) /\ tbl[i].sma_50.num * tbl[i].sma_200.den < tbl[i].sma_200.num * tbl[i].sma_50.den
Equal(tbl, i) ==
    Defined(tbl, i) /\ tbl[i].sma_50.num * tbl[i].sma_200.den = tbl[i].sma_200.num * tbl[i].sma_50.den

GoldenRows(tbl) ==
    {i \in 2..Len(tbl) : Above(tbl, i) /\ (Below(tbl, i - 1) \/ Equal(tbl, i - 1))}
DeathRows(tbl) ==
    {i \in 2..Len(tbl) : Below(tbl, i) /\ (Above(tbl, i - 1) \/ Equal(tbl, i - 1))}

\* C1: detect_golden_crossover returns, in table order, exactly the dates of
\* the rows i >= 1 with sma_50[i] > sma_200[i] and sma_50[i-1] <= sma_200[i-1];
\* the first row is never returned, nor is a row where one of the four values
\* is null.
GoldenExactC1 ==
    golden # None =>
        /\ IsDatesOf(golden[1], df, GoldenRows(df))
        /\ Len(df) >= 1 => ~InList(df[1].date, golden[1])
        /\ \A i \in 2..Len(df) :
              (~Defined(df, i) \/ ~Defined(df, i - 1)) => ~InList(df[i].date, golden[1])

\* A golden event after an equality row, in a table that also has a null row
\* and whose first row has sma_50 above sma_200.
WitnessC1 ==
    /\ golden # None /\ Len(df) >= 4
    /\ Above(df, 1)
    /\ \E i \in 2..Len(df) : ~Defined(df, i)
    /\ \E i \in 2..Len(df) : Equal(df, i - 1) /\ InList(df[i].date, golden[1])

\* C2: detect_death_crossover returns, in table order, exactly the dates of
\* the rows i >= 1 with sma_50[i] < sma_200[i] and sma_50[i-1] >= sma_200[i-1];
\* the first row is never returned, nor is a row where one of the four values
\* is null.
DeathExactC2 ==
    death # None =>
        /\ IsDatesOf(death[1], df, DeathRows(df))
        /\ Len(df) >= 1 => ~InList(df[1].date, death[1])
        /\ \A i \in 2..Len(df) :
              (~Defined(df, i) \/ ~Defined(df, i - 1)) => ~InList(df[i].date, death[1])

WitnessC2 ==
    /\ death # None /\ Len(df) >= 4
    /\ Below(df, 1)
    /\ \E i \in 2..Len(df) : ~Defined(df, i)
    /\ \E i \in 2..Len(df) : Equal(df, i - 1) /\ InList(df[i].date, death[1])

\* C5: no date is both in the golden list and in the death list of a table,
\* and a detector run again on the table returns the list it returned before,
\* the table being left as it was.
DisjointIdempotentC5 ==
    /\ [](golden # None /\ death # None =>
            \A d \in {df[i].date : i \in 1..Len(df)} :
                ~(InList(d, golden[1]) /\ InList(d, death[1])))
    /\ [][/\ df' = df
          /\ golden # None => golden' = golden
          /\ death # None => death' = death]_vars

\* Both detectors have run on a table where each of them found an event.
WitnessC5 ==
    /\ golden # None /\ death # None
    /\ Len(golden[1]) >= 1 /\ Len(death[1]) >= 1

\* C6: when sma_50 goes from strictly below sma_200 (row a), through one or
\* more rows of equality, to strictly above (row b), the golden list has the
\* date of row b and neither list has the date of an equality row, so the
\* transition gives exactly one event; symmetrically for the death list.
ThroughEqualityC6 ==
    (golden # None /\ death # None) =>
        \A a \in 1..Len(df), b \in 1..Len(df) :
            (b >= a + 2 /\ \A m \in (a + 1)..(b - 1) : Equal(df, m)) =>
                /\ (Below(df, a) /\ Above(df, b)) =>
                      /\ InList(df[b].date, golden[1])
                      /\ Cardinality({m \in (a + 1)..b : InList(df[m].date, golden[1])}) = 1
                      /\ \A m \in (a + 1)..(b - 1) :
                            ~InList(df[m].date, golden[1]) /\ ~InList(df[m].date, death[1])
                /\ (Above(df, a) /\ Below(df, b)) =>
                      /\ InList(df[b].date, death[1])
                      /\ Cardinality({m \in (a + 1)..b : InList(df[m].date, death[1])}) = 1
                      /\ \A m \in (a + 1)..(b - 1) :
                            ~InList(df[m].date, golden[1]) /\ ~InList(df[m].date, death[1])

\* Below, two rows of equality, above; both detectors have run.
WitnessC6 ==
    /\ golden # None /\ death # None /\ Len(df) = 4
    /\ Below(df, 1) /\ Equal(df, 2) /\ Equal(df, 3) /\ Above(df, 4)
    /\ golden[1] = <<df[4].date>>

(***************************************************************************)
(* Properties of the indicators                                            *)
(***************************************************************************)
\* Sum and maximum of a field over the rows lo..hi of a table.
RECURSIVE CloseSum(_, _, _)
CloseSum(tbl, lo, hi) ==
    IF lo > hi THEN 0
    ELSE IF lo = hi THEN tbl[lo].close
    ELSE CloseSum(tbl, lo, (lo + hi) \div 2) + CloseSum(tbl, (lo + hi) \div 2 + 1, hi)

IsHighest(tbl, lo, hi, h) ==
    /\ \E j \in lo..hi : tbl[j].high = h
    /\ \A j \in lo..hi : tbl[j].high <= h

\* x is the finite value num / den.
IsQuotient(x, num, den) == x.den > 0 /\ x.num * den = x.den * num

\* The series of test_sma_calculation: 220 closes rising by one from 0, with
\* high = close + 1 and low = close - 1.
IsTestSeries ==
    /\ Len(raw.prices) = TestLen
    /\ \A i \in 1..Len(raw.prices) :
          \E d \in 0..(TestLen - 1) :
                            /\ raw.prices[i].date = BusinessDay(d)
                            /\ raw.prices[i].close = d
                            /\ raw.prices[i].high = d + 1
                            /\ raw.prices[i].low = d - 1

\* C3 as stated: on the test series the last row has both averages, neither
\* detector returns an event, and sma_50 is above sma_200 on every row where
\* both are defined.
NoEventOnRampC3 ==
    (IsTestSeries /\ golden # None /\ death # None) =>
        /\ Defined(df, Len(df))
        /\ golden[1] = <<>> /\ death[1] = <<>>
        /\ \A i \in 1..Len(df) : Defined(df, i) => Above(df, i)

\* C3 amended: on the test series the last row has both averages; sma_50
\* equals sma_200 on the rows up to the 50th bar where both are defined (both
\* windows hold the whole history there) and is above it from the 51st bar
\* on, so the golden detector returns exactly the date of the 51st bar (row
\* 50) and the death detector returns nothing.
OneGoldenOnRampC3 ==
    (IsTestSeries /\ golden # None /\ death # None) =>
        /\ Defined(df, Len(df))
        /\ golden[1] = <<BusinessDay(50)>> /\ death[1] = <<>>
        /\ \A i \in 1..Len(df) :
              Defined(df, i) =>
                  IF df[i].date < BusinessDay(50) THEN Equal(df, i) ELSE Above(df, i)

\* The test series has been processed and both detectors have run.
WitnessC3 ==
    /\ IsTestSeries /\ golden # None /\ death # None
    /\ Len(df) = TestLen /\ Len(golden[1]) = 1

\* C7: in the table, sma_50 of row i is null when fewer than 10 rows exist up
\* to and including i, and otherwise is the mean of close over the trailing
\* min(i+1, 50) rows ending at i.
Sma50C7 ==
    pc = "processed" =>
        \A i \in 1..Len(df) :
            IF i < 10 THEN IsNull(df[i].sma_50)
            ELSE IsQuotient(df[i].sma_50, CloseSum(df, i - Min(i, 50) + 1, i), Min(i, 50))

\* C8: in the table, sma_200 of row i is null when fewer than 20 rows exist
\* up to and including i, and for i >= 199 is the mean of close[i-199..i].
Sma200C8 ==
    pc = "processed" =>
        \A i \in 1..Len(df) :
            /\ i < 20 => IsNull(df[i].sma_200)
            /\ i >= 200 => IsQuotient(df[i].sma_200, CloseSum(df, i - 199, i), 200)

\* C9: in every row of the table pct_from_52w_high is null exactly when
\* high_52w is null, which is when fewer than 20 rows exist up to and
\* including the row; otherwise high_52w is the maximum of high over the
\* trailing at most 252 rows ending at the row, and pct_from_52w_high is
\* (close / high_52w - 1) * 100 (infinite, with the sign of close, when
\* high_52w is 0).
PctFromHighC9 ==
    pc = "processed" =>
        \A i \in 1..Len(df) :
            /\ IsNull(df[i].pct_from_52w_high) <=> IsNull(df[i].high_52w)
            /\ IsNull(df[i].high_52w) <=> i < 20
            /\ ~IsNull(df[i].high_52w) =>
                  LET h == df[i].high_52w
                      pct == df[i].pct_from_52w_high
                  IN  /\ h.den = 1 /\ IsHighest(df, Max(1, i - 251), i, h.num)
                      /\ h.num # 0 =>
                            IsQuotient(pct, 100 * (df[i].close - h.num) * (IF h.num < 0 THEN -1 ELSE 1), Abs(h.num))
                      /\ (h.num = 0 /\ df[i].close > 0) => pct = PosInf
                      /\ (h.num = 0 /\ df[i].close < 0) => pct = NegInf

(***************************************************************************)
(* Properties of the pipeline on short series                              *)
(***************************************************************************)
\* C4: when the price list is empty, process_data returns an empty table
\* without raising, and the detectors return empty lists on it.
EmptyInputC4 ==
    (raw.prices = <<>> /\ pc # "fetched") =>
        /\ pc = "processed" /\ error = None /\ df = <<>>
        /\ golden # None => golden[1] = <<>>
        /\ death # None => death[1] = <<>>

\* C10: with a snapshot, every row of the merged frame, taken in ascending
\* date order whatever the order of the input bars, carries every field of
\* the snapshot (a null field is null on every row), and in the table
\* book_value_per_share is the same on all rows and enterprise_value is the
\* snapshot's own figure on all rows when it has one.
SnapshotOnEveryRowC10 ==
    (raw.fundamentals # None /\ raw.prices # <<>> /\ pc # "fetched") =>
        /\ Len(merged) = Len(raw.prices)
        /\ \A i \in 1..Len(merged) :
              /\ merged[i].fund = raw.fundamentals[1]
              /\ i > 1 => merged[i - 1].date < merged[i].date
        /\ pc = "processed" =>
              \A i \in 1..Len(df) :
                  /\ df[i].book_value_per_share = df[1].book_value_per_share
                  /\ raw.fundamentals[1].enterprise_value # None =>
                        df[i].enterprise_value = Float(raw.fundamentals[1].enterprise_value[1])

\* A snapshot with its own enterprise value and a null equity, on two bars
\* that arrive latest first; both rows are in the table.
WitnessC10 ==
    /\ pc = "processed" /\ raw.fundamentals # None
    /\ raw.fundamentals[1].enterprise_value # None
    /\ raw.fundamentals[1].total_shareholder_equity = None
    /\ raw.fundamentals[1].shares_outstanding # None
    /\ Len(raw.prices) = 2 /\ raw.prices[1].date > raw.prices[2].date
    /\ Len(df) = 2 /\ ~IsNull(df[2].enterprise_value)

(***************************************************************************)
(* Properties of the derived fundamentals                                  *)
(***************************************************************************)
\* The value the rule of book_value_per_share gives for a snapshot (or for
\* none): equity / shares when both are known and shares > 0, else the
\* snapshot's per-share book_value when it has one, else null.
BvpsByRule(fund) ==
    IF fund = None THEN NaN
    ELSE LET f == fund[1]
         IN  IF /\ f.total_shareholder_equity # None
                /\ f.shares_outstanding # None
                /\ f.shares_outstanding[1] > 0
             THEN Div(f.total_shareholder_equity[1], f.shares_outstanding[1])
             ELSE IF f.book_value # None THEN Float(f.book_value[1])
             ELSE NaN

\* C11: book_value_per_share of every row is equity / shares when shares > 0,
\* else the snapshot's per-share book_value when the quotient is unavailable
\* (equity or shares null, or shares = 0) and book_value is present, else
\* null; and process_data raises no error in any of these cases.
BookValuePerShareC11 ==
    (raw.prices # <<>> /\ pc # "fetched") =>
        /\ pc = "processed" /\ error = None
        /\ \A i \in 1..Len(df) : df[i].book_value_per_share = BvpsByRule(raw.fundamentals)

\* The value the rule of enterprise_value gives on a row of the given close:
\* the snapshot's own figure, else null when shares are unknown, else
\* shares * close + total_debt - cash with a missing term counting as zero.
EvByRule(fund, close) ==
    IF fund = None THEN NaN
    ELSE LET f == fund[1]
             debt == IF f.total_debt = None THEN 0 ELSE f.total_debt[1]
             cash == IF f.cash_and_short_term_investments = None THEN 0
                     ELSE f.cash_and_short_term_investments[1]
         IN  IF f.enterprise_value # None THEN Float(f.enterprise_value[1])
             ELSE IF f.shares_outstanding = None THEN NaN
             ELSE Float(f.shares_outstanding[1] * close + debt - cash)

\* C12: on every row of the table, enterprise_value is the snapshot's direct
\* figure when it has one; otherwise it is shares_outstanding * close +
\* total_debt - cash, a missing total_debt or cash counting as zero when
\* shares_outstanding is known, and null when shares_outstanding is unknown.
EnterpriseValueC12 ==
    (raw.prices # <<>> /\ pc = "processed") =>
        \A i \in 1..Len(df) :
            df[i].enterprise_value = EvByRule(raw.fundamentals, df[i].close)

(***************************************************************************)
(* Properties of run                                                       *)
(***************************************************************************)
\* A write to the store raised during this run.
SinkFailed ==
    error = Some("SQLAlchemyError") \/ InList("database_save_failed", notes)

\* C13: when run has ended after the fetch returned price data and a write
\* to the store (upsert_ticker, save_daily_metrics or save_signal_events)
\* raised, the payload has been exported, with the last rows of the table run
\* computed and with the events of the two detectors.
ExportDespiteSinkFailureC13 ==
    (pc \in {"done", "failed"} /\ raw.prices # <<>> /\ SinkFailed) =>
        /\ payload # None
        /\ payload[1].last_metrics = last_metrics(df)
        /\ golden # None /\ death # None
        /\ payload[1].signals = signals(raw.ticker, golden[1], death[1])

(***************************************************************************)
(* Properties of the store                                                 *)
(***************************************************************************)
MetricFields ==
    {"high", "low", "close", "volume", "sma_50", "sma_200", "high_52w",
     "pct_from_52w_high", "book_value_per_share", "price_to_book", "enterprise_value"}

\* The stored row r has the key of the table row x.
HasKeyOf(r, x) == r.ticker_symbol = x.ticker /\ r.date = x.date

\* C14: the store has at most one daily_metrics row per (ticker, date) and at
\* most one signal_events row per (ticker, date, signal_type).  Saving any
\* table once more after it was saved leaves the store as it was, and so does
\* saving any event list once more; neither call touches the other table.
\* After a table is saved, the one row of each of its keys has the metric
\* values of the table's last row of that key, and a row the store already
\* had for the key is that same row (same id) with the new values.
StoreKeysIdempotentC14 ==
    /\ \A r1, r2 \in db.daily_metrics :
          (r1.ticker_symbol = r2.ticker_symbol /\ r1.date = r2.date) => r1 = r2
    /\ \A e1, e2 \in db.signal_events :
          (/\ e1.ticker_symbol = e2.ticker_symbol
           /\ e1.date = e2.date
           /\ e1.signal_type = e2.signal_type) => e1 = e2
    /\ \A n \in TableLengths : \A tbl \in [1..n -> StoreRows] :
          LET once == save_daily_metrics(db, tbl)
          IN  /\ save_daily_metrics(once, tbl) = once
              /\ once.signal_events = db.signal_events
              /\ \A i \in 1..n :
                    (\A j \in (i + 1)..n : tbl[j].ticker # tbl[i].ticker
                                           \/ tbl[j].date # tbl[i].date) =>
                        /\ Cardinality({r \in once.daily_metrics : HasKeyOf(r, tbl[i])}) = 1
                        /\ \A r \in once.daily_metrics :
                              HasKeyOf(r, tbl[i]) =>
                                  \A f \in MetricFields : r.metrics[f] = tbl[i][f]
                        /\ \A r \in db.daily_metrics :
                              HasKeyOf(r, tbl[i]) =>
                                  \E q \in once.daily_metrics : q.id = r.id /\ HasKeyOf(q, tbl[i])
    /\ \A symbol \in Tickers, signal_type \in SignalTypes, n \in TableLengths :
          \A dates \in [1..n -> StoreDates] :
              LET once == save_signal_events(db, symbol, dates, signal_type)
              IN  /\ save_signal_events(once, symbol, dates, signal_type) = once
                  /\ once.daily_metrics = db.daily_metrics

\* The store holds two daily_metrics rows of one ticker, the one of date 1
\* with close 1 (so that a table with close 2 at that date replaces values),
\* and an event.
WitnessC14 ==
    /\ \E r1, r2 \in db.daily_metrics :
          /\ r1.ticker_symbol = r2.ticker_symbol
          /\ r1.date = 1 /\ r2.date = 2
          /\ r1.metrics.close = 1
    /\ db.signal_events # {}

====
